---- MODULE Spec2Model ----
(***************************************************************************)
(* PantryFS (src/mypantry.c, src/pantryfs_sb.h): a one-directory,          *)
(* one-block-per-file filesystem.  The model keeps the three on-disk       *)
(* structures (superblock block, inode store, root directory block), the   *)
(* file data blocks, and the in-memory inodes and dentries the handlers    *)
(* are called with.                                                        *)
(*                                                                         *)
(* Each handler is a pure operator from a filesystem state (a record) and  *)
(* its arguments to the state afterwards and the value returned; the       *)
(* actions apply these operators to the variables.                         *)
(*                                                                         *)
(* The superblock block and the file data blocks are byte arrays, kept as  *)
(* run-length lists <<length, byte>>.  The two bitmaps live inside the     *)
(* bytes of block 0 at the offsets struct pantryfs_super_block gives them. *)
(* The inode store and the directory block are arrays of records.          *)
(***************************************************************************)
EXTENDS Integers, Sequences, FiniteSets, TLC

\* ---------------------------------------------------------------- constants

PFS_BLOCK_SIZE == 4096

PANTRYFS_ROOT_INODE_NUMBER == 1

PANTRYFS_SUPERBLOCK_DATABLOCK_NUMBER == 0

PANTRYFS_INODE_STORE_DATABLOCK_NUMBER == 1

PANTRYFS_ROOT_DATABLOCK_NUMBER == 2

\* PFS_BLOCK_SIZE / sizeof(struct pantryfs_inode), scaled down
PFS_MAX_INODES == 6

\* PFS_BLOCK_SIZE / sizeof(struct pantryfs_dir_entry), scaled down
PFS_MAX_CHILDREN == 4

\* longest name lookup accepts, scaled down
PANTRYFS_MAX_FILENAME_LENGTH == 2

\* the filename buffer holds the longest name and its terminator
PANTRYFS_FILENAME_BUF_SIZE == PANTRYFS_MAX_FILENAME_LENGTH + 1

S_IFDIR == 16384

S_IFREG == 32768

EIO == 5

EINVAL == 22

EFAULT == 14

ENAMETOOLONG == 36

\* regular files the formatted image holds beside the root directory
NPre == 2

\* operations in one behaviour
MaxOps == 5

\* in-memory inodes ever allocated in one behaviour
MaxMem == 3

\* ------------------------------------------------------------ byte arrays

RECURSIVE ByteAt(_, _)
\* b_data[i] of a block kept as runs
ByteAt(c, i) ==
    IF i < c[1][1] THEN c[1][2] ELSE ByteAt(Tail(c), i - c[1][1])

RECURSIVE Prefix(_, _)
\* the first n bytes
Prefix(c, n) ==
    IF n <= 0 \/ c = <<>> THEN <<>>
    ELSE IF c[1][1] <= n THEN <<c[1]>> \o Prefix(Tail(c), n - c[1][1])
    ELSE << <<n, c[1][2]>> >>

RECURSIVE Suffix(_, _)
\* the bytes from offset n on
Suffix(c, n) ==
    IF n <= 0 \/ c = <<>> THEN c
    ELSE IF c[1][1] <= n THEN Suffix(Tail(c), n - c[1][1])
    ELSE << <<c[1][1] - n, c[1][2]>> >> \o Tail(c)

RECURSIVE Norm(_)
\* one representation per byte array: adjacent equal runs merged
Norm(c) ==
    IF Len(c) <= 1 THEN c
    ELSE IF c[1][2] = c[2][2]
         THEN Norm(<< <<c[1][1] + c[2][1], c[1][2]>> >> \o Tail(Tail(c)))
         ELSE <<c[1]>> \o Norm(Tail(c))

\* the bytes [off, off + cnt)
Slice(c, off, cnt) == Norm(Prefix(Suffix(c, off), cnt))

\* memset / copy of cnt bytes of value v at off
Fill(c, off, cnt, v) ==
    IF cnt <= 0 THEN c
    ELSE Norm(Prefix(c, off) \o << <<cnt, v>> >> \o Suffix(c, off + cnt))

\* ---------------------------------------------------------------- bitmaps

\* uint32_t words of one bit vector: DECLARE_BIT_VECTOR(name, PFS_MAX_INODES)
BitWords == (PFS_MAX_INODES \div 32) + 1

\* byte offset of free_inodes in struct pantryfs_super_block (after version, magic)
FreeInodesOff == 16

\* byte offset of free_data_blocks
FreeDataOff == FreeInodesOff + 4 * BitWords

\* the byte of the block that holds bit k of the vector at A (little-endian words)
BitByte(A, k) == A + 4 * (k \div 32) + ((k % 32) \div 8)

Pow2(n) == 2 ^ n

IS_SET(sb, A, k) == (ByteAt(sb, BitByte(A, k)) \div Pow2(k % 8)) % 2 = 1

SETBIT(sb, A, k) ==
    IF IS_SET(sb, A, k) THEN sb
    ELSE Fill(sb, BitByte(A, k), 1, ByteAt(sb, BitByte(A, k)) + Pow2(k % 8))

CLEARBIT(sb, A, k) ==
    IF IS_SET(sb, A, k)
    THEN Fill(sb, BitByte(A, k), 1, ByteAt(sb, BitByte(A, k)) - Pow2(k % 8))
    ELSE sb

\* the for loops of create: first clear bit below PFS_MAX_INODES, else PFS_MAX_INODES
FirstClear(sb, A) ==
    LET clear == {k \in 0 .. PFS_MAX_INODES - 1 : ~IS_SET(sb, A, k)}
    IN  IF clear = {} THEN PFS_MAX_INODES
        ELSE CHOOSE k \in clear : \A j \in clear : k <= j

\* ------------------------------------------------------------------ records

ZeroInode ==
    [mode |-> 0, uid |-> 0, gid |-> 0, i_atime |-> 0, i_mtime |-> 0,
     i_ctime |-> 0, nlink |-> 0, data_block_number |-> 0, file_size |-> 0]

\* a directory entry; stray marks bytes of the slot outside the three
\* fields being written through another structure's pointer
ZeroDentry == [inode_no |-> 0, active |-> 0, filename |-> <<>>, stray |-> FALSE]

LongName(n) == [i \in 1 .. n |-> 1]

PreName(k) == <<k + 2>>

PreNames == {PreName(k) : k \in 1 .. NPre}

\* names create is called with (the caller has looked them up first)
CreateNames == {<<2>>, LongName(PANTRYFS_MAX_FILENAME_LENGTH)}

\* names lookup is called with
LookupNames == CreateNames \cup PreNames \cup {LongName(PANTRYFS_MAX_FILENAME_LENGTH + 1)}

\* the bytes written by one write call
UserBytes == {255}

\* last block number a file of the model can own
BlkTop == IF PFS_MAX_INODES - 1 > NPre + 2 THEN PFS_MAX_INODES - 1 ELSE NPre + 2

DataBlocks == 3 .. BlkTop

\* strncpy(dst, name, n): the first n characters
strncpy(name, n) == SubSeq(name, 1, IF Len(name) < n THEN Len(name) ELSE n)

\* strncmp(a, b, n) == 0
strncmp0(a, b, n) == strncpy(a, n) = strncpy(b, n)

\* strcmp(a, b) == 0
strcmp0(a, b) == a = b

\* -------------------------------------------------------- in-memory inodes

\* what pfs_inode fills in on a new struct inode
NewInode(ino, rec) ==
    LET isroot == ino = PANTRYFS_ROOT_INODE_NUMBER
        isdir == ((rec.mode \div S_IFDIR) % 2 = 1) \/ isroot
    IN  [i_ino |-> ino,
         i_mode |-> IF isroot THEN 511 + S_IFDIR ELSE rec.mode,
         i_nlink |-> rec.nlink, i_uid |-> rec.uid, i_gid |-> rec.gid,
         i_atime |-> rec.i_atime, i_mtime |-> rec.i_mtime,
         i_ctime |-> rec.i_ctime,
         i_size |-> IF isdir THEN PFS_BLOCK_SIZE ELSE rec.file_size,
         dir |-> isdir, cached |-> TRUE, dirty |-> FALSE]

\* pfs_inode: iget_locked(sb, 0) returns the cached inode whose i_ino is 0 when
\* there is one, and a new inode otherwise; only a new inode is filled in
pfs_inode(mem, ino, rec) ==
    LET hit == {i \in 1 .. Len(mem) : mem[i].cached /\ mem[i].i_ino = 0}
    IN  IF hit # {}
        THEN [mem |-> mem, id |-> CHOOSE i \in hit : TRUE]
        ELSE [mem |-> Append(mem, NewInode(ino, rec)), id |-> Len(mem) + 1]

\* ------------------------------------------------------- the formatted image

\* bytes of the files the image holds
PreSize == 10

ZeroBlock == << <<PFS_BLOCK_SIZE, 0>> >>

RECURSIVE SetBits(_, _, _)
\* bits 0 .. k of the vector at A set
SetBits(sb, A, k) ==
    IF k < 0 THEN sb ELSE SetBits(SETBIT(sb, A, k), A, k - 1)

\* version 1, magic 0x4118, bit i of either bitmap set for inode i + 1 and
\* for its data block i + 2
FormatSb ==
    SetBits(SetBits(Fill(Fill(Fill(ZeroBlock, 0, 1, 1), 8, 1, 24), 9, 1, 65),
                    FreeInodesOff, NPre), FreeDataOff, NPre)

FormatIstore ==
    [i \in 0 .. PFS_MAX_INODES - 1 |->
        IF i = 0
        THEN [ZeroInode EXCEPT !.mode = S_IFDIR + 511, !.nlink = 2,
                               !.data_block_number = PANTRYFS_ROOT_DATABLOCK_NUMBER,
                               !.file_size = PFS_BLOCK_SIZE]
        ELSE IF i <= NPre
        THEN [ZeroInode EXCEPT !.mode = S_IFREG + 438, !.nlink = 1,
                               !.data_block_number = PANTRYFS_ROOT_DATABLOCK_NUMBER + i,
                               !.file_size = PreSize]
        ELSE ZeroInode]

FormatDir ==
    [i \in 0 .. PFS_MAX_CHILDREN - 1 |->
        IF i < NPre
        THEN [inode_no |-> i + 2, active |-> 1, filename |-> PreName(i + 1),
              stray |-> FALSE]
        ELSE ZeroDentry]

FormatData ==
    [b \in DataBlocks |->
        IF b <= NPre + 2 THEN Fill(ZeroBlock, 0, PreSize, 7) ELSE ZeroBlock]

\* the state pantryfs_fill_super leaves: the image and the root inode in memory
Mounted ==
    [sb |-> FormatSb, istore |-> FormatIstore, dir |-> FormatDir,
     data |-> FormatData, oob |-> ZeroInode,
     mem |-> pfs_inode(<<>>, PANTRYFS_ROOT_INODE_NUMBER, FormatIstore[0]).mem,
     dcache |-> [n \in LookupNames |-> 0]]

\* ------------------------------------------------------------------ helpers

\* the record istore_bh->b_data + (ino - 1) * PFS_INODE_SIZE points at; for
\* ino = 0 that is the memory just before the block, kept as oob
PFS_inode_from_istore(s, ino) ==
    IF ino >= 1 /\ ino <= PFS_MAX_INODES THEN s.istore[ino - 1] ELSE s.oob

\* the state with that record replaced
StoreInode(s, ino, rec) ==
    IF ino >= 1 /\ ino <= PFS_MAX_INODES
    THEN [s EXCEPT !.istore[ino - 1] = rec]
    ELSE [s EXCEPT !.oob = rec]

PFS_datablock_no_from_inode(s, inode) ==
    PFS_inode_from_istore(s, inode.i_ino).data_block_number

\* the root directory's in-memory inode: the only directory
RootId == 1

FreeInodeBits(s) == {k \in 0 .. PFS_MAX_INODES - 1 : IS_SET(s.sb, FreeInodesOff, k)}

FreeDataBits(s) == {k \in 0 .. PFS_MAX_INODES - 1 : IS_SET(s.sb, FreeDataOff, k)}

\* the first slot of the directory block satisfying P, else PFS_MAX_CHILDREN
FirstSlot(dir, P(_)) ==
    LET hits == {i \in 0 .. PFS_MAX_CHILDREN - 1 : P(dir[i])}
    IN  IF hits = {} THEN PFS_MAX_CHILDREN
        ELSE CHOOSE i \in hits : \A j \in hits : i <= j

\* ------------------------------------------------------------------- create

\* the record create writes for the new file
NewRecord(parent, db, now) ==
    [mode |-> S_IFREG + 438, uid |-> parent.i_uid, gid |-> parent.i_gid,
     i_atime |-> now, i_mtime |-> now, i_ctime |-> now, nlink |-> 1,
     data_block_number |-> db, file_size |-> 0]

\* an entry whose inode number is left unset
NewDentry_m(name, ino) ==
    [inode_no |-> 0, active |-> 1,
     filename |-> strncpy(name, PANTRYFS_FILENAME_BUF_SIZE), stray |-> FALSE]

\* the directory entry create writes into the slot it found
NewDentry(name, ino) ==
    [inode_no |-> ino, active |-> 1,
     filename |-> strncpy(name, PANTRYFS_FILENAME_BUF_SIZE), stray |-> FALSE]

\* pantryfs_create(parent, dentry, mode, excl); f numbers the sb_bread that fails;
\* unflushed is the blocks the call changed in their buffers and returned
\* without a sync_dirty_buffer after the change
pantryfs_create(s, name, mode, now, f) ==
    LET parent == s.mem[RootId]
        new_ino_no == FirstClear(s.sb, FreeInodesOff)
        new_db_no == FirstClear(s.sb, FreeDataOff)
        sb1 == SETBIT(SETBIT(s.sb, FreeInodesOff, new_ino_no), FreeDataOff, new_db_no)
        s1 == [s EXCEPT !.sb = sb1]
        s2 == StoreInode(s1, new_ino_no, NewRecord(parent, new_db_no, now))
        Inactive(d) == d.active = 0
        new_dentry_no == FirstSlot(s2.dir, Inactive)
        s3 == [s2 EXCEPT !.dir[new_dentry_no] = NewDentry(name, new_ino_no)]
        out(st, ret, how, leak) ==
            [st |-> st, ret |-> ret, how |-> how, ino |-> new_ino_no,
             db |-> new_db_no, slot |-> new_dentry_no, leak |-> leak,
             unflushed |-> {}]
    IN  IF f = 1 THEN out(s, -EIO, "eio", {})
        ELSE IF new_ino_no = PFS_MAX_INODES \/ new_db_no = PFS_MAX_INODES
        THEN out(s, 0, "nospace", {PANTRYFS_SUPERBLOCK_DATABLOCK_NUMBER})
        ELSE IF f = 2 THEN out(s1, -EIO, "eio", {})
        ELSE IF f = 3 THEN out(s2, -EIO, "eio", {})
        ELSE IF new_dentry_no = PFS_MAX_CHILDREN THEN out(s2, 0, "dirfull", {})
        ELSE out(s3, 0, "ok", {})

\* ------------------------------------------------------------------- lookup

\* the directory scan of lookup: the first active entry whose name matches
lookup_scan(dir, name) ==
    LET Match(d) == d.active # 0
                    /\ strncmp0(d.filename, name, PANTRYFS_FILENAME_BUF_SIZE)
    IN  FirstSlot(dir, Match)

\* a length test that is off by one
NameTooLong_m(name) == Len(name) >= PANTRYFS_MAX_FILENAME_LENGTH

\* child_dentry->d_name.len > PANTRYFS_MAX_FILENAME_LENGTH
NameTooLong(name) == Len(name) > PANTRYFS_MAX_FILENAME_LENGTH

\* pantryfs_lookup(parent, child_dentry, flags); reads counts the sb_bread calls
\* and leak is the blocks whose buffer sb_bread handed out and no brelse took
\* back before the return
pantryfs_lookup(s, name, f) ==
    LET i == lookup_scan(s.dir, name)
        ino == s.dir[i].inode_no
        got == pfs_inode(s.mem, ino, PFS_inode_from_istore(s, ino))
        s1 == [s EXCEPT !.mem = got.mem, !.dcache[name] = got.id]
        pardir == PFS_datablock_no_from_inode(s, s.mem[RootId])
        out(st, ret, how, id, reads, leak) ==
            [st |-> st, ret |-> ret, how |-> how, id |-> id, reads |-> reads,
             leak |-> leak]
    IN  IF NameTooLong(name)
        THEN out(s, -ENAMETOOLONG, "toolong", 0, 0, {})
        ELSE IF f = 1 THEN out(s, -EIO, "eio", 0, 0, {})
        ELSE IF f = 2
        THEN out(s, -EIO, "eio", 0, 1, {PANTRYFS_INODE_STORE_DATABLOCK_NUMBER})
        ELSE IF i = PFS_MAX_CHILDREN THEN out(s, 0, "absent", 0, 2, {pardir})
        ELSE out(s1, 0, "found", got.id, 2, {pardir})

\* ------------------------------------------------------------------- unlink

\* PFS_remove_inode(sb_bh, istore_bh, inode): both CLEARBITs are on free_inodes
PFS_remove_inode(s, inode) ==
    LET ino == inode.i_ino
        db_no == PFS_datablock_no_from_inode(s, inode)
        sb1 == CLEARBIT(CLEARBIT(s.sb, FreeInodesOff, ino), FreeInodesOff, db_no)
    IN  StoreInode([s EXCEPT !.sb = sb1], ino, ZeroInode)

\* PFS_inode_from_istore(dir_bh, ino)->nlink--: the decrement is applied to the
\* directory block, in the slot k that the inode-store offset of that field
\* falls in (no slot when ino is 0: the address is before the block)
StrayDecrement(dir, ino, k) ==
    IF ino >= 1 /\ ino <= PFS_MAX_INODES
    THEN [dir EXCEPT ![k].stray = TRUE]
    ELSE dir

\* drop_nlink: i_nlink is an unsigned int, kept as its representative modulo
\* 2^32 in the signed range, so 0 - 1 is -1 (0xFFFFFFFF) and only 0 is zero
drop_nlink(n) == n - 1

\* pantryfs_unlink(dir, dentry) with dentry = (name, inode id); k as above
pantryfs_unlink(s, name, id, k, f) ==
    LET dentry_inode == s.mem[id]
        Same(d) == strcmp0(d.filename, name)
        i == FirstSlot(s.dir, Same)
        s1 == [s EXCEPT !.dir[i] = ZeroDentry]
        nl == drop_nlink(dentry_inode.i_nlink)
        s2 == [s1 EXCEPT !.mem[id].i_nlink = nl, !.mem[id].dirty = TRUE,
                         !.dir = StrayDecrement(s1.dir, dentry_inode.i_ino, k)]
        s3 == PFS_remove_inode(s2, s2.mem[id])
        out(st, ret, how) ==
            [st |-> st, ret |-> ret, how |-> how, slot |-> i,
             ino |-> dentry_inode.i_ino,
             db |-> PFS_datablock_no_from_inode(s, dentry_inode),
             unflushed |-> IF st # s /\ dentry_inode.i_ino \in 1 .. PFS_MAX_INODES
                           THEN {PFS_datablock_no_from_inode(s, s.mem[RootId])}
                           ELSE {},
             leak |-> {}]
    IN  IF f = 1 \/ f = 2 THEN out(s, -EIO, "eio")
        ELSE IF i = PFS_MAX_CHILDREN THEN out(s, -EFAULT, "absent")
        ELSE IF nl # 0 THEN out(s2, 0, "linked")
        ELSE IF f = 3 THEN out(s2, -EIO, "eio")
        ELSE out(s3, 0, "reclaimed")

\* ------------------------------------------------------------ read and write

\* bh->b_data of block b: block 0 is the superblock block
Block(s, b) == IF b = PANTRYFS_SUPERBLOCK_DATABLOCK_NUMBER THEN s.sb ELSE s.data[b]

\* the state with block b replaced
StoreBlock(s, b, c) ==
    IF b = PANTRYFS_SUPERBLOCK_DATABLOCK_NUMBER
    THEN [s EXCEPT !.sb = c]
    ELSE [s EXCEPT !.data[b] = c]

\* the blocks a file's bytes are modelled for
BlockOK(b) == b = PANTRYFS_SUPERBLOCK_DATABLOCK_NUMBER \/ b \in DataBlocks

\* a transfer that is never shortened
Clip_m(len, pos) == len

\* amt_to_read, amt_to_write
Clip(len, pos) ==
    IF len + pos > PFS_BLOCK_SIZE THEN PFS_BLOCK_SIZE - pos ELSE len

\* pantryfs_read(filp, buf, len, ppos) on the open file of inode id
pantryfs_read(s, id, ppos, len, f) ==
    LET inode == s.mem[id]
        blk == PFS_datablock_no_from_inode(s, inode)
        amt_to_read == Clip(len, ppos)
        out(ret, how, pos, bytes) ==
            [st |-> s, ret |-> ret, how |-> how, pos |-> pos, blk |-> blk,
             bytes |-> bytes, leak |-> {}]
    IN  IF ppos = PFS_BLOCK_SIZE THEN out(0, "eof", ppos, <<>>)
        ELSE IF ppos > PFS_BLOCK_SIZE THEN out(-EINVAL, "range", ppos, <<>>)
        ELSE IF f = 1 \/ f = 2 THEN out(-EIO, "eio", ppos, <<>>)
        ELSE IF f = 3 THEN out(-EFAULT, "fault", ppos, <<>>)
        ELSE out(amt_to_read, "ok", ppos + amt_to_read,
                 Slice(Block(s, blk), ppos, amt_to_read))

\* a write that accepts every offset
OffsetPastEnd_m(ppos, inode, append) == FALSE

\* *ppos > i_size_read(inode): the offset is tested before O_APPEND is looked at
OffsetPastEnd(ppos, inode, append) == ppos > inode.i_size

\* pantryfs_write(filp, buf, len, ppos); the user buffer holds len bytes v;
\* append is filp->f_flags & O_APPEND
pantryfs_write(s, id, ppos, len, v, append, f) ==
    LET inode == s.mem[id]
        pos0 == IF append THEN inode.i_size ELSE ppos
        blk == PFS_datablock_no_from_inode(s, inode)
        amt_to_write == Clip(len, pos0)
        pos1 == pos0 + amt_to_write
        s1 == StoreBlock(s, blk, Fill(Block(s, blk), pos0, amt_to_write, v))
        s2 == IF pos1 > inode.i_size
              THEN [s1 EXCEPT !.mem[id].i_size = pos1,
                              !.mem[id].dirty = TRUE]
              ELSE s1
        out(st, ret, how, at, pos) ==
            [st |-> st, ret |-> ret, how |-> how, at |-> at, pos |-> pos,
             blk |-> blk,
             unflushed |-> IF how = "ok" /\ amt_to_write > 0 THEN {blk} ELSE {},
             leak |-> {}]
    IN  IF OffsetPastEnd(ppos, inode, append)
        THEN out(s, -EINVAL, "range", ppos, ppos)
        ELSE IF f = 1 \/ f = 2 THEN out(s, -EIO, "eio", pos0, pos0)
        ELSE IF f = 3 THEN out(s, -EFAULT, "fault", pos0, pos0)
        ELSE out(s2, amt_to_write, "ok", pos0, pos1)

\* ------------------------------------------------------ write_inode and evict

\* a write_back that forgets the size
pantryfs_write_inode_m(s, id, f) ==
    LET inode == s.mem[id]
        old == PFS_inode_from_istore(s, inode.i_ino)
        new == [old EXCEPT !.mode = inode.i_mode, !.uid = inode.i_uid,
                           !.gid = inode.i_gid, !.nlink = inode.i_nlink,
                           !.i_atime = inode.i_atime, !.i_mtime = inode.i_mtime,
                           !.i_ctime = inode.i_ctime]
        s1 == [s EXCEPT !.mem[id].dirty = FALSE]
    IN  [st |-> StoreInode(s1, inode.i_ino, new), ret |-> 0, how |-> "ok",
         unflushed |-> {}, leak |-> {}]

\* pantryfs_write_inode(inode, wbc)
pantryfs_write_inode(s, id, f) ==
    LET inode == s.mem[id]
        old == PFS_inode_from_istore(s, inode.i_ino)
        new == [old EXCEPT !.mode = inode.i_mode, !.uid = inode.i_uid,
                           !.gid = inode.i_gid, !.nlink = inode.i_nlink,
                           !.i_atime = inode.i_atime, !.i_mtime = inode.i_mtime,
                           !.i_ctime = inode.i_ctime, !.file_size = inode.i_size]
        s1 == [s EXCEPT !.mem[id].dirty = FALSE]
    IN  IF f = 1
        THEN [st |-> s, ret |-> -EIO, how |-> "eio", unflushed |-> {}, leak |-> {}]
        ELSE [st |-> StoreInode(s1, inode.i_ino, new), ret |-> 0, how |-> "ok",
              unflushed |-> {}, leak |-> {}]

\* pantryfs_evict_inode(inode): the inode leaves the inode cache, and with it
\* the dentries that held it
pantryfs_evict_inode(s, id, f) ==
    LET s1 == [s EXCEPT !.mem[id].cached = FALSE,
                        !.dcache = [n \in DOMAIN s.dcache |->
                                       IF s.dcache[n] = id THEN 0 ELSE s.dcache[n]]]
    IN  IF f = 1 \/ f = 2 THEN [st |-> s1, ret |-> 0, how |-> "eio", leak |-> {}]
        ELSE [st |-> PFS_remove_inode(s1, s1.mem[id]), ret |-> 0, how |-> "ok",
              leak |-> {}]

\* ---------------------------------------------------------------------- iterate

\* the names dir_emit_dots emits
Dot == <<0>>

DotDot == <<0, 0>>

\* what dir_emit hands to the caller
Emitted(name, ino) == [name |-> name, ino |-> ino]

\* the for loop of pantryfs_iterate from slot i on: every active entry is
\* emitted until dir_emit refuses one, room being the entries the caller's
\* buffer still takes
RECURSIVE emit_loop(_, _, _)
emit_loop(dir, i, room) ==
    IF i >= PFS_MAX_CHILDREN THEN <<>>
    ELSE IF dir[i].active = 0 THEN emit_loop(dir, i + 1, room)
    ELSE IF room = 0 THEN <<>>
    ELSE <<Emitted(dir[i].filename, dir[i].inode_no)>>
             \o emit_loop(dir, i + 1, room - 1)

\* dir_emit_dots(dir, ctx): "." at position 0 and ".." at position 1
dir_emit_dots(pos, room) ==
    LET dot == pos = 0 /\ room > 0
        pos1 == IF dot THEN 1 ELSE pos
        room1 == IF dot THEN room - 1 ELSE room
        dotdot == pos1 = 1 /\ room1 > 0
    IN  [ok |-> ~(pos = 0 /\ room = 0) /\ ~(pos1 = 1 /\ room1 = 0),
         pos |-> IF dotdot THEN 2 ELSE pos1,
         room |-> IF dotdot THEN room1 - 1 ELSE room1,
         out |-> (IF dot THEN <<Emitted(Dot, PANTRYFS_ROOT_INODE_NUMBER)>> ELSE <<>>)
                 \o (IF dotdot THEN <<Emitted(DotDot, PANTRYFS_ROOT_INODE_NUMBER)>>
                     ELSE <<>>)]

\* pantryfs_iterate(filp, ctx) on the root directory with ctx->pos = pos
pantryfs_iterate(s, pos, room, f) ==
    LET dots == dir_emit_dots(pos, room)
        out(ret, how, p, o) ==
            [st |-> s, ret |-> ret, how |-> how, pos |-> p, out |-> o,
             leak |-> {}]
    IN  IF pos > PFS_MAX_CHILDREN + 2 THEN out(0, "end", pos, <<>>)
        ELSE IF ~dots.ok THEN out(0, "dots", dots.pos, dots.out)
        ELSE IF f = 1 \/ f = 2 THEN out(-EIO, "eio", dots.pos, dots.out)
        ELSE out(0, "ok", PFS_MAX_CHILDREN + 3,
                 dots.out \o emit_loop(s.dir, 0, dots.room))

\* -------------------------------------------------------------------- state

VARIABLES sb, istore, dir, data, oob, mem, dcache, last, nops, ctx, race

vars == <<sb, istore, dir, data, oob, mem, dcache, last, nops, ctx, race>>

\* the filesystem state the handlers work on
Cur ==
    [sb |-> sb, istore |-> istore, dir |-> dir, data |-> data, oob |-> oob,
     mem |-> mem, dcache |-> dcache]

Becomes(s) ==
    /\ sb' = s.sb
    /\ istore' = s.istore
    /\ dir' = s.dir
    /\ data' = s.data
    /\ oob' = s.oob
    /\ mem' = s.mem
    /\ dcache' = s.dcache

\* the dir_context of a directory just opened, with what the caller has been
\* handed since and whether a call has reported the end
Opened == [pos |-> 0, out |-> <<>>, done |-> FALSE]

\* two tasks that call create on the root directory at the same time
Procs == {1, 2}

\* a task that has not entered pantryfs_create: pc is the place in the
\* function, the rest its locals
Idle ==
    [pc |-> "idle", name |-> <<>>, snap |-> <<>>, ino |-> 0, db |-> 0,
     slot |-> 0, how |-> "none"]

Init ==
    /\ sb = Mounted.sb
    /\ istore = Mounted.istore
    /\ dir = Mounted.dir
    /\ data = Mounted.data
    /\ oob = Mounted.oob
    /\ mem = Mounted.mem
    /\ dcache = Mounted.dcache
    /\ last = [op |-> "mount", ret |-> 0]
    /\ nops = 0
    /\ ctx = Opened
    /\ race = [p \in Procs |-> Idle]

\* inode number ino belongs to a file or directory of the image: its record
\* is in use or an active directory entry names it
InUse(s, ino) ==
    \/ PFS_inode_from_istore(s, ino) # ZeroInode
    \/ \E i \in 0 .. PFS_MAX_CHILDREN - 1 :
           s.dir[i].active # 0 /\ s.dir[i].inode_no = ino

\* create finds no clear bit in one of the bitmaps
Exhausted(s) ==
    \/ FirstClear(s.sb, FreeInodesOff) = PFS_MAX_INODES
    \/ FirstClear(s.sb, FreeDataOff) = PFS_MAX_INODES

\* current_time(parent)
Now == nops + 1

\* the in-memory inodes of regular files that are still in the inode cache
OpenFiles == {i \in 1 .. Len(mem) : mem[i].cached /\ ~mem[i].dir}

\* file modes create is called with
Modes == {S_IFREG + 420}

ReadOffsets == {0, 4090, PFS_BLOCK_SIZE, PFS_BLOCK_SIZE + 1}

WriteOffsets == {0, PreSize, 4090}

Lengths == {10, 4090}

Call(op, args, r) ==
    /\ nops < MaxOps
    /\ nops' = nops + 1
    /\ Becomes(r.st)
    /\ last' = [op |-> op, args |-> args, res |-> [x \in DOMAIN r \ {"st"} |-> r[x]]]

Step(op, args, r) == Call(op, args, r) /\ UNCHANGED <<ctx, race>>

Create(F) ==
    \E name \in CreateNames, mode \in Modes, f \in F :
        /\ Len(name) <= PANTRYFS_MAX_FILENAME_LENGTH
        /\ Step("create",
                [name |-> name, mode |-> mode,
                 present |-> lookup_scan(dir, name) < PFS_MAX_CHILDREN,
                 taken |-> InUse(Cur, FirstClear(sb, FreeInodesOff))],
                pantryfs_create(Cur, name, mode, Now, f))

Lookup(F) ==
    \E name \in LookupNames, f \in F :
        /\ Len(mem) < MaxMem
        /\ Step("lookup", [name |-> name], pantryfs_lookup(Cur, name, f))

Unlink(F) ==
    \E name \in LookupNames, k \in 0 .. PFS_MAX_CHILDREN - 1, f \in F :
        /\ dcache[name] \in OpenFiles
        /\ Step("unlink",
                [name |-> name, id |-> dcache[name], exhausted |-> Exhausted(Cur)],
                pantryfs_unlink(Cur, name, dcache[name], k, f))

Read(F) ==
    \E id \in OpenFiles, off \in ReadOffsets, len \in Lengths, f \in F :
        /\ BlockOK(PFS_datablock_no_from_inode(Cur, mem[id]))
        /\ Step("read", [id |-> id, off |-> off, len |-> len],
                pantryfs_read(Cur, id, off, len, f))

Write(F) ==
    \E id \in OpenFiles, off \in WriteOffsets, len \in Lengths,
       v \in UserBytes, append \in BOOLEAN, f \in F :
        /\ BlockOK(PFS_datablock_no_from_inode(Cur, mem[id]))
        /\ Step("write", [id |-> id, off |-> off, len |-> len, v |-> v,
                          append |-> append, size |-> mem[id].i_size],
                pantryfs_write(Cur, id, off, len, v, append, f))

WriteInode(F) ==
    \E id \in 1 .. Len(mem), f \in F :
        /\ mem[id].cached /\ mem[id].dirty
        /\ Step("write_inode", [id |-> id], pantryfs_write_inode(Cur, id, f))

Evict(F) ==
    \E id \in OpenFiles, f \in F :
        Step("evict", [id |-> id], pantryfs_evict_inode(Cur, id, f))

\* the block store works: no sb_bread fails, no user copy faults
NoFail == {0}

Next ==
    \/ Create(NoFail)
    \/ Lookup(NoFail)
    \/ Unlink(NoFail)
    \/ Read(NoFail)
    \/ Write(NoFail)
    \/ WriteInode(NoFail)
    \/ Evict(NoFail)

Spec == Init /\ [][Next]_vars

\* ---------------------------------------------------------- listing the root

\* entries the caller's buffer takes in one getdents call
Rooms == 1 .. PFS_MAX_CHILDREN + 2

\* one getdents call on the open root directory: iterate_dir calls
\* pantryfs_iterate with the position the last call left
Iterate(F) ==
    \E room \in Rooms, f \in F :
        LET r == pantryfs_iterate(Cur, ctx.pos, room, f)
        IN  /\ ~ctx.done
            /\ Call("iterate", [pos |-> ctx.pos, room |-> room], r)
            /\ ctx' = [pos |-> r.pos, out |-> ctx.out \o r.out,
                       done |-> r.ret = 0 /\ r.out = <<>>]
            /\ UNCHANGED race

\* the directory is closed and opened again
Rewind ==
    /\ ctx # Opened
    /\ ctx' = Opened
    /\ UNCHANGED <<sb, istore, dir, data, oob, mem, dcache, last, nops, race>>

\* the directory is changed between listings, not during one
Listing == ctx # Opened

NextList ==
    \/ ~Listing /\ Create(NoFail)
    \/ ~Listing /\ Lookup(NoFail)
    \/ ~Listing /\ Unlink(NoFail)
    \/ Iterate(NoFail)
    \/ Rewind

SpecList == Init /\ [][NextList]_vars

\* ------------------------------------------------ two creates with no lock

\* operations that come before the two creates start
MaxPre == 2

\* the names the two tasks create
RaceName(p) == IF p = 1 THEN <<2>> ELSE LongName(PANTRYFS_MAX_FILENAME_LENGTH)

\* the superblock block to with the bits of bitmap A taken from the block from
RECURSIVE CopyBits(_, _, _, _)
CopyBits(to, from, A, k) ==
    IF k = PFS_MAX_INODES THEN to
    ELSE CopyBits(IF IS_SET(from, A, k) THEN SETBIT(to, A, k)
                  ELSE CLEARBIT(to, A, k), from, A, k + 1)

RaceFrame == UNCHANGED <<data, mem, dcache, last, nops, ctx>>

\* the two scans of the bitmaps and the test for a full bitmap
CrScan(p) ==
    LET new_ino_no == FirstClear(sb, FreeInodesOff)
        new_db_no == FirstClear(sb, FreeDataOff)
        full == new_ino_no = PFS_MAX_INODES \/ new_db_no = PFS_MAX_INODES
    IN  /\ race[p].pc = "idle"
        /\ race' = [race EXCEPT ![p] =
               [pc |-> IF full THEN "done" ELSE "set", name |-> RaceName(p),
                snap |-> sb, ino |-> new_ino_no, db |-> new_db_no, slot |-> 0,
                how |-> IF full THEN "nospace" ELSE "none"]]
        /\ UNCHANGED <<sb, istore, dir, oob>>
        /\ RaceFrame

\* the two SETBITs and the flush: each is a read, an or and a write of a word
\* the other task may be writing, and the word read may be the one the scan
\* loaded
CrSet(p) ==
    \E bi \in {sb, race[p].snap}, bd \in {sb, race[p].snap} :
        /\ race[p].pc = "set"
        /\ sb' = SETBIT(CopyBits(SETBIT(CopyBits(sb, bi, FreeInodesOff, 0),
                                        FreeInodesOff, race[p].ino),
                                 bd, FreeDataOff, 0),
                        FreeDataOff, race[p].db)
        /\ race' = [race EXCEPT ![p].pc = "record"]
        /\ UNCHANGED <<istore, dir, oob>>
        /\ RaceFrame

\* the new record is written into the inode store and flushed
CrRecord(p) ==
    LET s == StoreInode(Cur, race[p].ino,
                        NewRecord(mem[RootId], race[p].db, Now))
    IN  /\ race[p].pc = "record"
        /\ istore' = s.istore
        /\ oob' = s.oob
        /\ race' = [race EXCEPT ![p].pc = "dirscan"]
        /\ UNCHANGED <<sb, dir>>
        /\ RaceFrame

\* the scan of the parent's block for the first inactive entry
CrDirScan(p) ==
    LET Inactive(d) == d.active = 0
        new_dentry_no == FirstSlot(dir, Inactive)
        full == new_dentry_no = PFS_MAX_CHILDREN
    IN  /\ race[p].pc = "dirscan"
        /\ race' = [race EXCEPT ![p].slot = new_dentry_no,
                                ![p].pc = IF full THEN "done" ELSE "insert",
                                ![p].how = IF full THEN "dirfull" ELSE "none"]
        /\ UNCHANGED <<sb, istore, dir, oob>>
        /\ RaceFrame

\* the entry is written into the slot found and flushed
CrInsert(p) ==
    /\ race[p].pc = "insert"
    /\ dir' = [dir EXCEPT ![race[p].slot] = NewDentry(race[p].name, race[p].ino)]
    /\ race' = [race EXCEPT ![p].pc = "done", ![p].how = "ok"]
    /\ UNCHANGED <<sb, istore, oob>>
    /\ RaceFrame

Racing == \E p \in Procs : race[p].pc # "idle"

Before == ~Racing /\ nops < MaxPre

NextRace ==
    \/ Before /\ Create(NoFail)
    \/ Before /\ Lookup(NoFail)
    \/ Before /\ Unlink(NoFail)
    \/ \E p \in Procs : CrScan(p)
    \/ \E p \in Procs : CrSet(p)
    \/ \E p \in Procs : CrRecord(p)
    \/ \E p \in Procs : CrDirScan(p)
    \/ \E p \in Procs : CrInsert(p)

SpecRace == Init /\ [][NextRace]_vars

\* ------------------------------------------------------ validity of the model

\* the directory read through the root's record is block 2, no file's bytes
\* are in the inode store or the directory block, and no size passes a block
TypeSafe ==
    /\ istore[0].data_block_number = PANTRYFS_ROOT_DATABLOCK_NUMBER
    /\ \A i \in OpenFiles :
           /\ BlockOK(PFS_datablock_no_from_inode(Cur, mem[i]))
           /\ mem[i].i_size <= PFS_BLOCK_SIZE
           /\ mem[i].i_ino <= PFS_MAX_INODES

\* ------------------------------------------------- create, lookup and unlink

Slots == 0 .. PFS_MAX_CHILDREN - 1

\* the last operation was a create that made a file under a name the root
\* directory did not hold
CreatedNew ==
    last.op = "create" /\ last.res.how = "ok" /\ ~last.args.present

\* C1: create(root, name, mode) of a name the root directory does not hold,
\* followed at once by lookup(root, name), returns the inode of the new file:
\* its number is the one create assigned, its link count is 1, its size is 0,
\* and it is neither the root inode nor the inode of a file that existed
\* before the create.
C1_CreateThenLookup ==
    CreatedNew =>
        LET r == pantryfs_lookup(Cur, last.args.name, 0)
            inode == r.st.mem[r.id]
        IN  /\ r.how = "found"
            /\ r.id \notin 1 .. Len(mem)
            /\ inode.i_ino = last.res.ino
            /\ inode.i_nlink = 1
            /\ inode.i_size = 0
            /\ inode.i_ino # PANTRYFS_ROOT_INODE_NUMBER
            /\ ~last.args.taken

\* C2: after create(root, name, mode) and an unlink(root, name) that brings
\* the link count to zero, the inode bit and the data-block bit that create
\* set are clear again and the inode record is zero-filled.
C2_CreateThenUnlink ==
    CreatedNew =>
        LET l == pantryfs_lookup(Cur, last.args.name, 0)
        IN  \A k \in Slots :
                LET u == pantryfs_unlink(l.st, last.args.name, l.id, k, 0)
                IN  u.how = "reclaimed" =>
                        /\ ~IS_SET(u.st.sb, FreeInodesOff, last.res.ino)
                        /\ ~IS_SET(u.st.sb, FreeDataOff, last.res.db)
                        /\ PFS_inode_from_istore(u.st, last.res.ino) = ZeroInode

\* C3: deleting a name is idempotent: after an unlink(root, name) that
\* succeeded, lookup(root, name) finds no entry, and a second
\* unlink(root, name) reports the not-found error and leaves the directory
\* block, the inode table and both bitmaps as they were.
C3_UnlinkIdempotent ==
    (last.op = "unlink" /\ last.res.ret = 0) =>
        /\ pantryfs_lookup(Cur, last.args.name, 0).how = "absent"
        /\ \A k \in Slots :
               LET u == pantryfs_unlink(Cur, last.args.name, last.args.id, k, 0)
               IN  /\ u.ret = -EFAULT
                   /\ u.st.dir = dir
                   /\ u.st.istore = istore
                   /\ u.st.sb = sb

\* --------------------------------------------------- exhaustion and full directory

\* every entry slot of the root directory block is active
DirFull == \A i \in Slots : dir[i].active # 0

\* no two active entries of the root directory block hold one name
OneEntryPerName ==
    \A i, j \in Slots :
        (i # j /\ dir[i].active # 0 /\ dir[j].active # 0) =>
            dir[i].filename # dir[j].filename

\* the bitmaps, the inode table and the directory block of s are those of the
\* current state
SameDisk(s) ==
    /\ s.sb = sb
    /\ s.istore = istore
    /\ s.oob = oob
    /\ s.dir = dir

\* C4: when the inode bitmap or the data-block bitmap has no clear bit, create
\* returns the NoSpace error, an error outcome and not success, and leaves
\* both bitmaps, the inode table and the directory block unchanged.
C4_NoSpaceIsError ==
    (Exhausted(Cur) /\ OneEntryPerName) =>
        \A name \in CreateNames, mode \in Modes :
            LET r == pantryfs_create(Cur, name, mode, Now, 0)
            IN  r.ret < 0 /\ SameDisk(r.st)

\* C5: once creates have used up the free slots so that create fails,
\* unlinking one file down to zero links makes the very next create succeed,
\* on an inode bit and a data-block bit that were clear at that point.
C5_CreateAfterReclaim ==
    (/\ last.op = "unlink" /\ last.args.exhausted /\ last.res.how = "reclaimed"
     /\ OneEntryPerName) =>
        \A name \in CreateNames, mode \in Modes :
            LET r == pantryfs_create(Cur, name, mode, Now, 0)
            IN  /\ r.how = "ok"
                /\ ~IS_SET(sb, FreeInodesOff, r.ino)
                /\ ~IS_SET(sb, FreeDataOff, r.db)

\* C6: when every entry slot of the parent directory block is active, create
\* fails with the DirectoryFull error, an error outcome and not success, and
\* inserts no entry; the inode bit and the data-block bit it had set stay set
\* and no directory entry refers to the new inode.
C6_DirFullIsError ==
    (DirFull /\ ~Exhausted(Cur) /\ OneEntryPerName) =>
        \A name \in CreateNames, mode \in Modes :
            LET r == pantryfs_create(Cur, name, mode, Now, 0)
            IN  /\ r.ret < 0
                /\ r.st.dir = dir
                /\ IS_SET(r.st.sb, FreeInodesOff, r.ino)
                /\ IS_SET(r.st.sb, FreeDataOff, r.db)
                /\ \A i \in Slots : r.st.dir[i].inode_no # r.ino

\* ------------------------------------------------------------ read and write

Min(a, b) == IF a < b THEN a ELSE b

Max(a, b) == IF a > b THEN a ELSE b

\* the block the on-disk record of in-memory inode id names, before the step
FileBlock(id) == Block(Cur, PFS_datablock_no_from_inode(Cur, mem[id]))

\* the same block after the step
FileBlockAfter(id) ==
    LET b == PFS_datablock_no_from_inode(Cur, mem[id])
    IN  IF b = PANTRYFS_SUPERBLOCK_DATABLOCK_NUMBER THEN sb' ELSE data'[b]

ReadStep ==
    last'.op = "read" =>
        LET a == last'.args
            r == last'.res
            cnt == Min(a.len, PFS_BLOCK_SIZE - a.off)
        IN  /\ UNCHANGED <<sb, istore, dir, data, oob>>
            /\ a.off > PFS_BLOCK_SIZE => r.ret = -EINVAL
            /\ a.off = PFS_BLOCK_SIZE => r.ret = 0 /\ r.bytes = <<>>
            /\ a.off < PFS_BLOCK_SIZE =>
                   /\ r.ret = cnt
                   /\ r.bytes = Slice(FileBlock(a.id), a.off, cnt)
                   /\ r.pos = a.off + cnt

\* C7: for every offset and length, read fails with the out-of-range error
\* when offset > 4096, returns 0 bytes when offset = 4096, and otherwise
\* returns exactly min(length, 4096 - offset) bytes, the bytes of the file's
\* data block at [offset, offset + count), advances the position by that
\* count, and changes nothing on disk.
C7_Read == [][ReadStep]_vars

\* a read at offset 4090 of 10 bytes has returned the 6 bytes left in the block
C7_Witness ==
    /\ last.op = "read"
    /\ last.args.off = 4090 /\ last.args.len = 10
    /\ last.res.ret = 6 /\ last.res.pos = PFS_BLOCK_SIZE

\* every byte of the byte array c is v
AllBytes(c, v) == \A i \in 1 .. Len(c) : c[i][2] = v

WriteStep ==
    (last'.op = "write" /\ ~last'.args.append) =>
        LET a == last'.args
            r == last'.res
            size == mem[a.id].i_size
            cnt == Min(a.len, PFS_BLOCK_SIZE - a.off)
            grown == mem'[a.id].i_size - size
        IN  /\ a.off > size =>
                   /\ r.ret < 0
                   /\ UNCHANGED <<sb, istore, dir, data, oob, mem, dcache>>
            /\ a.off <= size =>
                   /\ r.ret = cnt
                   /\ FileBlockAfter(a.id) = Fill(FileBlock(a.id), a.off, cnt, a.v)
                   /\ mem'[a.id].i_size = Max(size, a.off + cnt)
                   /\ AllBytes(Slice(FileBlockAfter(a.id), size, grown), a.v)

\* no size, in memory or in the inode table, passes one block
SizeBound ==
    /\ \A i \in 1 .. Len(mem) : mem[i].i_size <= PFS_BLOCK_SIZE
    /\ \A i \in 0 .. PFS_MAX_INODES - 1 : istore[i].file_size <= PFS_BLOCK_SIZE

\* C8: a write without append at an offset past the current size fails and
\* changes nothing; at an offset up to the current size it writes exactly
\* min(len, 4096 - offset) bytes at the offset (offset 4090 with 10 bytes
\* returns 6) and the size becomes max(old size, offset + count), the bytes
\* between the old and the new size being bytes of this write; so no size ever
\* passes 4096 and a write leaves no unwritten gap below the size.
C8_Write == [][WriteStep]_vars /\ []SizeBound

\* a write at offset 4090 of 10 bytes has written 6 and filled the block
C8_Witness ==
    /\ last.op = "write" /\ ~last.args.append
    /\ last.args.off = 4090 /\ last.args.len = 10
    /\ last.res.ret = 6
    /\ mem[last.args.id].i_size = PFS_BLOCK_SIZE

\* C9: with append set, write puts the data at offset = current file size
\* whatever offset the caller supplied, an offset past the current size
\* included, and succeeds with the clipped count.
C9_Append ==
    (last.op = "write" /\ last.args.append) =>
        /\ last.res.how = "ok"
        /\ last.res.at = last.args.size
        /\ last.res.ret = Min(last.args.len, PFS_BLOCK_SIZE - last.args.size)

\* ------------------------------------------------------------- name length

\* C10: lookup of a name of exactly the maximum filename length goes on to
\* the directory search, reading the inode store and the directory block and
\* answering by what the directory holds, while a name one byte longer
\* returns NameTooLong before any block is read.
C10_NameLength ==
    last.op = "lookup" =>
        LET n == Len(last.args.name)
            r == last.res
        IN  /\ n = PANTRYFS_MAX_FILENAME_LENGTH =>
                   /\ r.reads = 2
                   /\ r.how \in {"found", "absent"}
                   /\ r.how = "found" <=>
                          \E i \in Slots : /\ dir[i].active # 0
                                           /\ dir[i].filename = last.args.name
            /\ n = PANTRYFS_MAX_FILENAME_LENGTH + 1 =>
                   /\ r.ret = -ENAMETOOLONG
                   /\ r.reads = 0

\* a lookup of a name of the maximum length has found the file of that name
C10_Witness ==
    /\ last.op = "lookup"
    /\ Len(last.args.name) = PANTRYFS_MAX_FILENAME_LENGTH
    /\ last.res.how = "found"

\* ------------------------------------------------------------------ write_back

\* inode numbers with a slot in the inode store
ValidInos == 1 .. PFS_MAX_INODES

WriteBackStep ==
    (last'.op = "write_inode" /\ mem[last'.args.id].i_ino \in ValidInos) =>
        LET inode == mem[last'.args.id]
            slot == inode.i_ino - 1
            rec == istore'[slot]
        IN  /\ rec.mode = inode.i_mode
            /\ rec.nlink = inode.i_nlink
            /\ rec.uid = inode.i_uid
            /\ rec.gid = inode.i_gid
            /\ rec.i_atime = inode.i_atime
            /\ rec.i_mtime = inode.i_mtime
            /\ rec.i_ctime = inode.i_ctime
            /\ rec.file_size = inode.i_size
            /\ rec.data_block_number = istore[slot].data_block_number
            /\ \A j \in 0 .. PFS_MAX_INODES - 1 : j # slot => istore'[j] = istore[j]
            /\ oob' = oob

\* C11: for every valid inode number, write_back of an in-memory inode
\* followed by a read of the on-disk record of that number yields the same
\* mode, link count, owner, group, three timestamps and size; write_back
\* leaves the record's data-block number and every other record unchanged.
C11_WriteBack == [][WriteBackStep]_vars

\* a write_back has stored a size that a write had grown
C11_Witness ==
    /\ last.op = "write_inode"
    /\ mem[last.args.id].i_ino \in ValidInos
    /\ mem[last.args.id].i_size > PreSize
    /\ istore[mem[last.args.id].i_ino - 1].file_size = mem[last.args.id].i_size

\* -------------------------------------------------------------------- listing

\* the active entries of the directory block from slot i on, in slot order
RECURSIVE ActiveEntries(_)
ActiveEntries(i) ==
    IF i >= PFS_MAX_CHILDREN THEN <<>>
    ELSE (IF dir[i].active # 0
          THEN <<Emitted(dir[i].filename, dir[i].inode_no)>> ELSE <<>>)
         \o ActiveEntries(i + 1)

WholeListing ==
    <<Emitted(Dot, PANTRYFS_ROOT_INODE_NUMBER),
      Emitted(DotDot, PANTRYFS_ROOT_INODE_NUMBER)>> \o ActiveEntries(0)

\* C12: listing is resumable: whatever the directory holds and wherever the
\* caller stops taking entries, iterate calls that resume from the returned
\* position emit ".", ".." and then every active entry in slot order, each
\* exactly once, none skipped or repeated, and then report the end.
C12_ListingResumable == ctx.done => ctx.out = WholeListing

\* ------------------------------------------------------------ the create race

\* both creates have returned after inserting an entry
BothCreated == \A p \in Procs : race[p].pc = "done" /\ race[p].how = "ok"

\* each task scanned the bitmaps before the other had set its bits
ScannedTogether == race[1].snap = race[2].snap

\* the entries of both tasks are in the directory, under their two names, and
\* hold one inode number
TwoEntriesOneInode ==
    /\ race[1].slot # race[2].slot
    /\ \A p \in Procs :
           /\ dir[race[p].slot].active = 1
           /\ dir[race[p].slot].filename = race[p].name
           /\ dir[race[p].slot].inode_no = race[1].ino
    /\ race[1].name # race[2].name

\* C13: with nothing serializing the operations, two creates of distinct
\* names on one directory that both scan the bitmaps before either sets its
\* bits select the same free inode slot and the same data-block slot, and
\* when each then inserts its entry in a slot of its own, two directory
\* entries refer to one inode record.
C13_CreateRace ==
    (BothCreated /\ ScannedTogether) =>
        /\ race[1].ino = race[2].ino
        /\ race[1].db = race[2].db
        /\ race[1].slot # race[2].slot => TwoEntriesOneInode

\* such an interleaving has run: one inode slot, one data-block slot, two entries
C13_Witness ==
    /\ BothCreated
    /\ ScannedTogether
    /\ race[1].ino = race[2].ino
    /\ race[1].db = race[2].db
    /\ TwoEntriesOneInode
    /\ PFS_inode_from_istore(Cur, race[1].ino).nlink = 1

\* ------------------------------------------------------------------------ evict

\* C14: evict of an in-memory inode whose link count is still above zero
\* reclaims nothing: the bitmap bits of the inode stay set and its on-disk
\* record stays as it is.
C14_EvictLinked ==
    \A id \in OpenFiles :
        (mem[id].i_nlink > 0 /\ mem[id].i_ino \in ValidInos) =>
            LET r == pantryfs_evict_inode(Cur, id, 0)
                rec == PFS_inode_from_istore(Cur, mem[id].i_ino)
            IN  /\ r.st.sb = sb
                /\ PFS_inode_from_istore(r.st, mem[id].i_ino) = rec

\* ------------------------------------------------------------ bitmap and table

\* C15: after any sequence of create, unlink, write_back and evict run one at
\* a time from the formatted image, bit i of the inode bitmap is set exactly
\* when slot i of the inode table, the record of inode i + 1, is live, and
\* every slot that is not live is all zero.
C15_BitmapMatchesTable ==
    \A i \in 0 .. PFS_MAX_INODES - 1 :
        IS_SET(sb, FreeInodesOff, i) <=> istore[i] # ZeroInode

\* ------------------------------------------------------------------ data blocks

\* slots of the inode table that hold a record
LiveSlots == {i \in 0 .. PFS_MAX_INODES - 1 : istore[i] # ZeroInode}

\* the blocks of the superblock, the inode store and the root directory
MetaBlocks ==
    {PANTRYFS_SUPERBLOCK_DATABLOCK_NUMBER, PANTRYFS_INODE_STORE_DATABLOCK_NUMBER,
     PANTRYFS_ROOT_DATABLOCK_NUMBER}

\* C16: after any sequence of create, unlink, write and evict run one at a
\* time, no two live inodes, the root included, have one data-block number,
\* and no regular file's data block is block 0, 1 or 2, so that a write to a
\* file never lands in the superblock, the inode table or the directory.
C16_BlocksDisjoint ==
    /\ \A i, j \in LiveSlots :
           i # j => istore[i].data_block_number # istore[j].data_block_number
    /\ \A i \in LiveSlots \ {PANTRYFS_ROOT_INODE_NUMBER - 1} :
           istore[i].data_block_number \notin MetaBlocks
    /\ \A id \in OpenFiles :
           PFS_datablock_no_from_inode(Cur, mem[id]) \notin MetaBlocks

\* ------------------------------------------------------------ names of entries

\* C17: after any sequence of create and unlink on the root directory, the
\* directory block holds at most one active entry for each filename: create
\* of a name that is already active adds no second active entry.
C17_OneEntryPerName ==
    /\ OneEntryPerName
    /\ (last.op = "create" /\ last.args.present) =>
           Cardinality({i \in Slots : /\ dir[i].active # 0
                                      /\ dir[i].filename = last.args.name}) = 1

\* --------------------------------------------------------- what unlink changes

UnlinkStep ==
    (last'.op = "unlink" /\ last'.res.ret = 0) =>
        LET id == last'.args.id
            n == mem[id].i_nlink
            ino == mem[id].i_ino
            slot == last'.res.slot
        IN  /\ mem'[id].i_nlink = n - 1
            /\ (ino \in ValidInos /\ n - 1 > 0) =>
                   /\ istore'[ino - 1] = [istore[ino - 1] EXCEPT !.nlink = n - 1]
                   /\ sb' = sb
            /\ (ino \in ValidInos /\ n - 1 = 0) => istore'[ino - 1].nlink = 0
            /\ dir'[slot] = ZeroDentry
            /\ \A j \in Slots : j # slot => dir'[j] = dir[j]

\* C18: unlink(root, name) of an inode of link count n brings the link count
\* to n - 1 in the in-memory inode and in the inode's record in the inode
\* table; when n - 1 > 0 nothing is reclaimed; and the only bytes of the
\* directory block that change are those of the removed entry's slot, which
\* becomes all zero.
C18_UnlinkFrame == [][UnlinkStep]_vars

\* ------------------------------------------------------------ evict after unlink

\* C19: no double reclamation: once unlink has brought an inode to zero links
\* and reclaimed it, the later evict of that in-memory inode changes nothing
\* more: it clears no bitmap bit, the root's bit 0 or the bit of a slot a
\* create has taken since, and it zeroes no record.
C19_NoDoubleReclaim ==
    \A id \in OpenFiles :
        mem[id].i_nlink = 0 =>
            LET r == pantryfs_evict_inode(Cur, id, 0)
            IN  /\ r.st.sb = sb
                /\ r.st.istore = istore
                /\ r.st.oob = oob

\* ------------------------------------------------------------------------ flush

Mutators == {"create", "unlink", "write", "write_inode"}

\* the last operation was a write that made the file longer
Extended ==
    /\ last.op = "write"
    /\ last.res.how = "ok"
    /\ mem[last.args.id].i_size > last.args.size

\* C20: when create, unlink, write or write_back returns with success, every
\* on-disk structure it changed has been flushed to the block store, no block
\* it modified being left unflushed, and a write that extended the file has
\* the new size in the on-disk inode record.
C20_Flushed ==
    (last.op \in Mutators /\ last.res.ret >= 0) =>
        /\ last.res.unflushed = {}
        /\ (Extended /\ mem[last.args.id].i_ino \in ValidInos) =>
               istore[mem[last.args.id].i_ino - 1].file_size
                   = mem[last.args.id].i_size

\* ------------------------------------------------------------- lookup result

\* the in-memory inode has the fields of the on-disk record
SameAsRecord(n, rec) ==
    /\ n.i_mode = rec.mode
    /\ n.i_nlink = rec.nlink
    /\ n.i_uid = rec.uid
    /\ n.i_gid = rec.gid
    /\ n.i_atime = rec.i_atime
    /\ n.i_mtime = rec.i_mtime
    /\ n.i_ctime = rec.i_ctime
    /\ n.i_size = rec.file_size

\* the slots whose entry is the active entry a lookup of its name reaches
Reached == {i \in Slots : dir[i].active # 0 /\ lookup_scan(dir, dir[i].filename) = i}

\* lookup of the name in slot i, in the current state
LookupOf(i) == pantryfs_lookup(Cur, dir[i].filename, 0)

\* C21: for every active directory entry (name, ino), lookup(root, name)
\* returns an in-memory inode whose inode number is ino and whose mode, link
\* count, owner, timestamps and size are those of on-disk record ino, whatever
\* inodes are already in the inode cache; and lookups of two names with
\* different inode numbers return different in-memory inodes.
C21_LookupInode ==
    \A i \in Reached :
        LET r == LookupOf(i)
        IN  /\ r.how = "found"
            /\ r.st.mem[r.id].i_ino = dir[i].inode_no
            /\ SameAsRecord(r.st.mem[r.id],
                            PFS_inode_from_istore(Cur, dir[i].inode_no))
            /\ \A j \in Reached :
                   dir[j].inode_no # dir[i].inode_no =>
                       pantryfs_lookup(r.st, dir[j].filename, 0).id # r.id

\* the same for the entries of regular files with a live record in the table
C21_AmongFiles ==
    \A i \in Reached :
        (/\ dir[i].inode_no \in 2 .. PFS_MAX_INODES
         /\ istore[dir[i].inode_no - 1] # ZeroInode
         /\ OneEntryPerName) =>
        LET r == LookupOf(i)
        IN  /\ r.how = "found"
            /\ r.st.mem[r.id].i_ino = dir[i].inode_no
            /\ SameAsRecord(r.st.mem[r.id],
                            PFS_inode_from_istore(Cur, dir[i].inode_no))
            /\ \A j \in Reached :
                   dir[j].inode_no # dir[i].inode_no =>
                       pantryfs_lookup(r.st, dir[j].filename, 0).id # r.id

\* --------------------------------------------------------- what create changes

CreateStep ==
    (last'.op = "create" /\ last'.res.how = "ok") =>
        LET ino == dir'[last'.res.slot].inode_no
        IN  /\ ino \in ValidInos
            /\ istore[ino - 1] = ZeroInode
            /\ istore'[ino - 1].nlink = 1
            /\ istore'[ino - 1].mode = last'.args.mode
            /\ istore'[ino - 1].file_size = 0
            /\ istore'[ino - 1].data_block_number = last'.res.db
            /\ \A j \in ValidInos : j # ino => istore'[j - 1] = istore[j - 1]

\* C22: a successful create writes exactly one inode-table record, the one at
\* the slot of the inode number it stores in the new directory entry, and
\* that inode number was not live before the call; the record has link count
\* 1, the mode given by the caller, size 0 and the newly allocated data-block
\* number; every other inode record, the parent directory's included, is
\* unchanged.
C22_CreateFrame == [][CreateStep]_vars

\* the parts of the frame the code keeps: one record written, at the slot of
\* the stored inode number, with link count 1, size 0 and the allocated block
CreateWritesOneRecord ==
    (last'.op = "create" /\ last'.res.how = "ok"
        /\ dir'[last'.res.slot].inode_no \in ValidInos) =>
        LET ino == dir'[last'.res.slot].inode_no
        IN  /\ istore'[ino - 1].nlink = 1
            /\ istore'[ino - 1].file_size = 0
            /\ istore'[ino - 1].data_block_number = last'.res.db
            /\ \A j \in ValidInos : j # ino => istore'[j - 1] = istore[j - 1]

C22_Kept == [][CreateWritesOneRecord]_vars

\* ------------------------------------------------------- what a reclaim changes

\* the last step reclaimed an inode: unlink on its zero-link branch, or evict
Reclaimed ==
    \/ last'.op = "unlink" /\ last'.res.how = "reclaimed"
    \/ last'.op = "evict" /\ last'.res.how = "ok"

Bits == 0 .. PFS_MAX_INODES - 1

ReclaimStep ==
    Reclaimed =>
        LET ino == mem[last'.args.id].i_ino
            db == PFS_datablock_no_from_inode(Cur, mem[last'.args.id])
        IN  /\ \A k \in Bits :
                   (k # ino - 1 /\ istore[k] # ZeroInode) =>
                       (IS_SET(sb', FreeInodesOff, k) <=> IS_SET(sb, FreeInodesOff, k))
            /\ \A k \in Bits :
                   k # db - PANTRYFS_ROOT_DATABLOCK_NUMBER =>
                       (IS_SET(sb', FreeDataOff, k) <=> IS_SET(sb, FreeDataOff, k))

\* C23: reclaiming an inode (the zero-link branch of unlink, or evict) changes
\* only bitmap bits that belong to that inode: the inode-bitmap bit of every
\* other live inode, the root's included, and every data-block bit not owned
\* by the reclaimed inode are the same after the call as before.
C23_ReclaimOwnBits == [][ReclaimStep]_vars

\* the same with either reading of which inode-bitmap bit is the inode's own,
\* bit ino - 1 (the image) or bit ino (create)
ReclaimStepEither ==
    Reclaimed =>
        LET ino == mem[last'.args.id].i_ino
        IN  \A k \in Bits :
                (k # ino - 1 /\ k # ino) =>
                    (IS_SET(sb', FreeInodesOff, k) <=> IS_SET(sb, FreeInodesOff, k))

C23_Either == [][ReclaimStepEither]_vars

\* --------------------------------------------------------------- block buffers

Operations ==
    {"create", "unlink", "lookup", "iterate", "read", "write", "write_inode",
     "evict"}

\* C24: every operation (create, unlink, lookup, iterate, read, write,
\* write_back, evict) releases each block buffer it acquired before it
\* returns, on the success path and on every error path, so that no block
\* reference is held between operations.
C24_BuffersReleased == last.op \in Operations => last.res.leak = {}

====
